---- MODULE Spec2Model ----
(***************************************************************************)
(* gcontributor: the lifecycle class Main (src/src/gcontributor/Main.py)   *)
(* with its three collaborators, as a state machine.                       *)
(*                                                                         *)
(*   durable state   the store behind DataAccess: the plan (date -> number *)
(*                   of commits), whether a plan was written, the run log  *)
(*   environment     the calendar date                                     *)
(*   process state   the position inside Main.run / Main.setupPlan /       *)
(*                   Main._runCommit and their locals                      *)
(*                                                                         *)
(* Main.py has no try/except: an exception raised by a collaborator (or by *)
(* the interpreter for a bad call) leaves run/_runCommit and ends the      *)
(* process.  A process may also be killed between any two lines (Crash).   *)
(* The store survives both; a new process is a new Main (Start).           *)
(*                                                                         *)
(* DataAccess.py holds only the method declarations (bodies are `pass`),   *)
(* Commiter.py is not part of the sources: what these methods do is taken  *)
(* from the specification's contract (PlanStore, ActionExecutor).          *)
(***************************************************************************)
EXTENDS Integers, FiniteSets, Sequences, TLC

\* ---------------------------------------------------------------- bounds
\* calendar dates are 1..MaxDay
MaxDay == 2
\* a plan asks for 0..MaxCount commits on a date
MaxCount == 2
\* how many successful commits may go unrecorded (process killed, or logRun
\* failing, between Main.py:40 and Main.py:41) in one behaviour
MaxLost == 1

Dates == 1..MaxDay

\* CommitDict: a dict from dates to numbers of commits
Plans == UNION {[D -> 0..MaxCount] : D \in SUBSET Dates}

EmptyPlan == [d \in {} |-> 0]

VARIABLES
    status,      \* store: a plan has been written (DataAccess.getStatus)
    plan,        \* store: the plan written by DataAccess.createDict
    runLog,      \* store: the dates logged by DataAccess.logRun
    today,       \* the calendar date, datetime.date.today()
    pc,          \* position of the process
    op,          \* the method of Main the process was asked to run
    gotStatus,   \* run: what getStatus() answered at line 24
    commit_plan, \* setupPlan: the local commit_plan
    catchUps,    \* run: how often this call of run entered _runCommit
    today_l,     \* _runCommit: the local today
    seenRun,     \* _runCommit: what hasRun(today) answered at line 36
    commit_num,  \* _runCommit: the local commit_num
    result,      \* _runCommit: how commit(commit_num) ended (the code drops it)
    marked,      \* _runCommit: logRun(today) was called and returned
    exc,         \* the exception that ended the process
    excAt,       \* the line of Main.py that raised it
    jobs,        \* number of jobs registered with the schedule library
    saves,       \* history: successful createDict calls
    okCount,     \* history: per date, commit calls with a count above 0 that
                 \* returned success
    lost,        \* history: per date, how many of those were never logged
    failed       \* history: the dates whose latest commit call with a count
                 \* above 0 failed (reported or raised)

store == <<status, plan, runLog>>
runLocals == <<gotStatus, commit_plan, catchUps>>
rcLocals == <<today_l, seenRun, commit_num, result, marked>>
history == <<saves, okCount, lost, failed>>
vars == <<status, plan, runLog, today, pc, op, gotStatus, commit_plan, catchUps,
          today_l, seenRun, commit_num, result, marked, exc, excAt, jobs,
          saves, okCount, lost, failed>>

\* an answer not yet obtained, and the two answers of a bool-returning call
Unset == "unset"
Ans(b) == IF b THEN "True" ELSE "False"
NoNum == -1

\* ------------------------------------------------------ the collaborators

readDateNoDefault(date) == IF date \in DOMAIN plan THEN plan[date] ELSE NoNum

\* DataAccess.readDate: the planned count, 0 for a date the plan does not hold
readDate(date) == IF date \in DOMAIN plan THEN plan[date] ELSE 0

\* DataAccess.hasRun
hasRun(date) == date \in runLog

\* DataAccess.getStatus
getStatus == status

\* how a call of Commiter.commit can end: success, a reported failure
\* (returned), or a raised exception
CommitOutcomes == {"ok", "failed", "raise"}

\* ------------------------------------------------------------- exceptions

RaiseSwallowed(kind, at) ==
    /\ pc' = "idle"
    /\ exc' = kind
    /\ excAt' = at

\* An exception leaves run/_runCommit (no except clause anywhere in Main.py)
\* and ends the process.
Raise(kind, at) ==
    /\ pc' = "terminated"
    /\ exc' = kind
    /\ excAt' = at

Running == pc \notin {"down", "terminated"}

\* ------------------------------------------------------------------ Init

Init ==
    /\ status = FALSE
    /\ plan = EmptyPlan
    /\ runLog = {}
    /\ today = 1
    /\ pc = "down"
    /\ op = "none"
    /\ gotStatus = Unset
    /\ commit_plan = EmptyPlan
    /\ catchUps = 0
    /\ today_l = 0
    /\ seenRun = Unset
    /\ commit_num = NoNum
    /\ result = "none"
    /\ marked = FALSE
    /\ exc = "none"
    /\ excAt = 0
    /\ jobs = 0
    /\ saves = 0
    /\ okCount = [d \in Dates |-> 0]
    /\ lost = [d \in Dates |-> 0]
    /\ failed = {}

\* --------------------------------------------------------------- process

\* A new process: Main.__init__ (nothing of the old process is left)
Start ==
    /\ pc \in {"down", "terminated"}
    /\ pc' = "idle"
    /\ op' = "none"
    /\ gotStatus' = Unset
    /\ commit_plan' = EmptyPlan
    /\ catchUps' = 0
    /\ today_l' = 0
    /\ seenRun' = Unset
    /\ commit_num' = NoNum
    /\ result' = "none"
    /\ marked' = FALSE
    /\ exc' = "none"
    /\ excAt' = 0
    /\ jobs' = 0
    /\ UNCHANGED <<store, today, history>>

\* The process is killed between two lines.  A commit that had succeeded at
\* line 40 and is not yet logged at line 41 stays unlogged.
Crash ==
    /\ Running
    /\ LET loses == pc = "rc_41" /\ result = "ok" /\ commit_num > 0
       IN  /\ loses => lost[today_l] < MaxLost
           /\ lost' = IF loses THEN [lost EXCEPT ![today_l] = @ + 1] ELSE lost
    /\ pc' = "down"
    /\ UNCHANGED <<store, today, op, runLocals, rcLocals, exc, excAt, jobs,
                   saves, okCount, failed>>

\* Midnight
AdvanceDay ==
    /\ today < MaxDay
    /\ today' = today + 1
    /\ UNCHANGED <<store, pc, op, runLocals, rcLocals, exc, excAt, jobs, history>>

\* ------------------------------------------------------------- Main.run

\* a caller invokes Main.run on the idle process
CallRun ==
    /\ pc = "idle"
    /\ pc' = "run_24"
    /\ op' = "run"
    /\ gotStatus' = Unset
    /\ commit_plan' = EmptyPlan
    /\ catchUps' = 0
    /\ today_l' = 0
    /\ seenRun' = Unset
    /\ commit_num' = NoNum
    /\ result' = "none"
    /\ marked' = FALSE
    /\ UNCHANGED <<store, today, exc, excAt, jobs, history>>

RunGetStatusAlwaysSetup ==
    /\ pc = "run_24"
    /\ \E fails \in BOOLEAN :
         IF fails
         THEN /\ Raise("StorageFailure", 24)
              /\ UNCHANGED gotStatus
         ELSE /\ gotStatus' = Ans(getStatus)
              /\ pc' = "setup_47"
              /\ UNCHANGED <<exc, excAt>>
    /\ UNCHANGED <<store, today, op, commit_plan, catchUps, rcLocals, jobs, history>>

\* line 24-25: if not self._data_accesor.getStatus(): self.setupPlan()
RunGetStatus ==
    /\ pc = "run_24"
    /\ \E fails \in BOOLEAN :
         IF fails
         THEN /\ Raise("StorageFailure", 24)
              /\ UNCHANGED gotStatus
         ELSE /\ gotStatus' = Ans(getStatus)
              /\ pc' = IF getStatus THEN "run_26" ELSE "setup_47"
              /\ UNCHANGED <<exc, excAt>>
    /\ UNCHANGED <<store, today, op, commit_plan, catchUps, rcLocals, jobs, history>>

SetupConvertFailureIgnored ==
    /\ pc = "setup_47"
    /\ \E raises \in BOOLEAN :
         IF raises
         THEN /\ pc' = "run_26"
              /\ exc' = "ConvertFailure"
              /\ excAt' = 47
              /\ UNCHANGED commit_plan
         ELSE \E p \in Plans :
                /\ commit_plan' = p
                /\ pc' = "setup_48"
                /\ UNCHANGED <<exc, excAt>>
    /\ UNCHANGED <<store, today, op, gotStatus, catchUps, rcLocals, jobs, history>>

\* line 47: commit_plan = self._converter.convert()
\* The converter is whatever object was injected: the call returns a plan or
\* raises (IConverter.convert itself raises NotImplementedError, an
\* implementation that requires srcUri raises TypeError, a source can be
\* unreachable or malformed).
SetupConvert ==
    /\ pc = "setup_47"
    /\ \E raises \in BOOLEAN :
         IF raises
         THEN /\ Raise("ConvertFailure", 47)
              /\ UNCHANGED commit_plan
         ELSE \E p \in Plans :
                /\ commit_plan' = p
                /\ pc' = "setup_48"
                /\ UNCHANGED <<exc, excAt>>
    /\ UNCHANGED <<store, today, op, gotStatus, catchUps, rcLocals, jobs, history>>

SetupCreateDictNoWrite ==
    /\ pc = "setup_48"
    /\ \E fails \in BOOLEAN :
         IF fails
         THEN /\ Raise("StorageFailure", 48)
              /\ UNCHANGED <<store, saves>>
         ELSE /\ pc' = "run_26"
              /\ UNCHANGED <<store, saves, exc, excAt>>
    /\ UNCHANGED <<today, op, runLocals, rcLocals, jobs, okCount, lost, failed>>

\* line 48: self._data_accesor.createDict(commit_plan); setupPlan returns to
\* line 26 of run
SetupCreateDict ==
    /\ pc = "setup_48"
    /\ \E fails \in BOOLEAN :
         IF fails
         THEN /\ Raise("StorageFailure", 48)
              /\ UNCHANGED <<store, saves>>
         ELSE /\ plan' = commit_plan
              /\ status' = TRUE
              /\ saves' = saves + 1
              /\ pc' = "run_26"
              /\ UNCHANGED <<runLog, exc, excAt>>
    /\ UNCHANGED <<today, op, runLocals, rcLocals, jobs, okCount, lost, failed>>

\* line 26: if not self._data_accesor.hasRun():
\* hasRun is called without its date.  DataAccess.hasRun(self, date) requires
\* it: the call raises TypeError.  An injected accessor whose date is optional
\* answers for the current date.
RunHasRun ==
    /\ pc = "run_26"
    /\ \E how \in {"TypeError", "StorageFailure", "answers"} :
         IF how = "answers"
         THEN /\ pc' = IF hasRun(today) THEN "run_29" ELSE "run_27"
              /\ UNCHANGED <<exc, excAt>>
         ELSE Raise(how, 26)
    /\ UNCHANGED <<store, today, op, runLocals, rcLocals, jobs, history>>

\* line 27: self._runCommit()
RunCatchUp ==
    /\ pc = "run_27"
    /\ pc' = "rc_35"
    /\ catchUps' = catchUps + 1
    /\ today_l' = 0
    /\ seenRun' = Unset
    /\ commit_num' = NoNum
    /\ result' = "none"
    /\ marked' = FALSE
    /\ UNCHANGED <<store, today, op, gotStatus, commit_plan, exc, excAt, jobs, history>>

\* line 29: schedule.every().data.at(self._schedule_time).do(self._runCommit, self)
\* The schedule library's Job has no attribute `data` (the unit is `day`):
\* evaluating `.data` raises AttributeError before .at() and .do() are
\* reached, so no job is registered.
RunSchedule ==
    /\ pc = "run_29"
    /\ Raise("AttributeError", 29)
    /\ UNCHANGED <<store, today, op, runLocals, rcLocals, jobs, history>>

\* ------------------------------------------------------ Main._runCommit

\* a caller (the scheduler's job run, a test) invokes _runCommit on the idle
\* process
CallRunCommit ==
    /\ pc = "idle"
    /\ pc' = "rc_35"
    /\ op' = "_runCommit"
    /\ gotStatus' = Unset
    /\ commit_plan' = EmptyPlan
    /\ catchUps' = 0
    /\ today_l' = 0
    /\ seenRun' = Unset
    /\ commit_num' = NoNum
    /\ result' = "none"
    /\ marked' = FALSE
    /\ UNCHANGED <<store, today, exc, excAt, jobs, history>>

RcTodayBackfill ==
    /\ pc = "rc_35"
    /\ \E d \in 1..today :
         /\ \A e \in 1..(d - 1) : hasRun(e)
         /\ (d < today => ~hasRun(d))
         /\ today_l' = d
    /\ pc' = "rc_36"
    /\ UNCHANGED <<store, today, op, runLocals, seenRun, commit_num, result, marked,
                   exc, excAt, jobs, history>>

\* line 35: today = datetime.date.today()
RcToday ==
    /\ pc = "rc_35"
    /\ today_l' = today
    /\ pc' = "rc_36"
    /\ UNCHANGED <<store, today, op, runLocals, seenRun, commit_num, result, marked,
                   exc, excAt, jobs, history>>

RcHasRunNoReturn ==
    /\ pc = "rc_36"
    /\ \E fails \in BOOLEAN :
         IF fails
         THEN /\ Raise("StorageFailure", 36)
              /\ UNCHANGED seenRun
         ELSE /\ seenRun' = Ans(hasRun(today_l))
              /\ pc' = "rc_39"
              /\ UNCHANGED <<exc, excAt>>
    /\ UNCHANGED <<store, today, op, runLocals, today_l, commit_num, result, marked,
                   jobs, history>>

\* line 36-37: if self._data_accesor.hasRun(today): return
RcHasRun ==
    /\ pc = "rc_36"
    /\ \E fails \in BOOLEAN :
         IF fails
         THEN /\ Raise("StorageFailure", 36)
              /\ UNCHANGED seenRun
         ELSE /\ seenRun' = Ans(hasRun(today_l))
              /\ pc' = IF hasRun(today_l) THEN "rc_ret" ELSE "rc_39"
              /\ UNCHANGED <<exc, excAt>>
    /\ UNCHANGED <<store, today, op, runLocals, today_l, commit_num, result, marked,
                   jobs, history>>

RcReadDateOfCurrentDay ==
    /\ pc = "rc_39"
    /\ \E fails \in BOOLEAN :
         IF fails
         THEN /\ Raise("StorageFailure", 39)
              /\ UNCHANGED commit_num
         ELSE /\ commit_num' = readDate(today)
              /\ pc' = "rc_40"
              /\ UNCHANGED <<exc, excAt>>
    /\ UNCHANGED <<store, today, op, runLocals, today_l, seenRun, result, marked,
                   jobs, history>>

\* line 39: commit_num = self._data_accesor.readDate(today)
RcReadDate ==
    /\ pc = "rc_39"
    /\ \E fails \in BOOLEAN :
         IF fails
         THEN /\ Raise("StorageFailure", 39)
              /\ UNCHANGED commit_num
         ELSE /\ commit_num' = readDate(today_l)
              /\ pc' = "rc_40"
              /\ UNCHANGED <<exc, excAt>>
    /\ UNCHANGED <<store, today, op, runLocals, today_l, seenRun, result, marked,
                   jobs, history>>

RcCommitLogsAtOnce ==
    /\ pc = "rc_40"
    /\ \E out \in CommitOutcomes :
         /\ result' = out
         /\ okCount' = IF out = "ok" /\ commit_num > 0
                       THEN [okCount EXCEPT ![today_l] = @ + 1]
                       ELSE okCount
         /\ failed' = IF commit_num > 0
                      THEN IF out = "ok" THEN failed \ {today_l}
                           ELSE failed \cup {today_l}
                      ELSE failed
         /\ IF out = "raise"
            THEN Raise("ActionFailure", 40)
            ELSE /\ pc' = "rc_41"
                 /\ UNCHANGED <<exc, excAt>>
    /\ runLog' = runLog \cup {today_l}
    /\ UNCHANGED <<status, plan, today, op, runLocals, today_l, seenRun, commit_num,
                   marked, jobs, saves, lost>>

\* line 40: self._commiter.commit(commit_num)
\* called for every commit_num, 0 included; what it returns is dropped
RcCommit ==
    /\ pc = "rc_40"
    /\ \E out \in CommitOutcomes :
         /\ result' = out
         /\ okCount' = IF out = "ok" /\ commit_num > 0
                       THEN [okCount EXCEPT ![today_l] = @ + 1]
                       ELSE okCount
         /\ failed' = IF commit_num > 0
                      THEN IF out = "ok" THEN failed \ {today_l}
                           ELSE failed \cup {today_l}
                      ELSE failed
         /\ IF out = "raise"
            THEN Raise("ActionFailure", 40)
            ELSE /\ pc' = "rc_41"
                 /\ UNCHANGED <<exc, excAt>>
    /\ UNCHANGED <<store, today, op, runLocals, today_l, seenRun, commit_num, marked,
                   jobs, saves, lost>>

RcLogRunNoWrite ==
    /\ pc = "rc_41"
    /\ \E fails \in BOOLEAN :
         IF fails
         THEN /\ (result = "ok" /\ commit_num > 0) => lost[today_l] < MaxLost
              /\ lost' = IF result = "ok" /\ commit_num > 0
                         THEN [lost EXCEPT ![today_l] = @ + 1]
                         ELSE lost
              /\ Raise("StorageFailure", 41)
              /\ UNCHANGED <<runLog, marked>>
         ELSE /\ runLog' = runLog
              /\ marked' = TRUE
              /\ pc' = "rc_ret"
              /\ UNCHANGED <<lost, exc, excAt>>
    /\ UNCHANGED <<status, plan, today, op, runLocals, today_l, seenRun, commit_num,
                   result, jobs, saves, okCount, failed>>

\* line 41: self._data_accesor.logRun(today)
RcLogRun ==
    /\ pc = "rc_41"
    /\ \E fails \in BOOLEAN :
         IF fails
         THEN /\ (result = "ok" /\ commit_num > 0) => lost[today_l] < MaxLost
              /\ lost' = IF result = "ok" /\ commit_num > 0
                         THEN [lost EXCEPT ![today_l] = @ + 1]
                         ELSE lost
              /\ Raise("StorageFailure", 41)
              /\ UNCHANGED <<runLog, marked>>
         ELSE /\ runLog' = runLog \cup {today_l}
              /\ marked' = TRUE
              /\ pc' = "rc_ret"
              /\ UNCHANGED <<lost, exc, excAt>>
    /\ UNCHANGED <<status, plan, today, op, runLocals, today_l, seenRun, commit_num,
                   result, jobs, saves, okCount, failed>>

\* _runCommit returns: to line 29 of run, or to the caller that invoked it
RcReturn ==
    /\ pc = "rc_ret"
    /\ pc' = IF op = "run" THEN "run_29" ELSE "idle"
    /\ UNCHANGED <<store, today, op, runLocals, rcLocals, exc, excAt, jobs, history>>

\* ------------------------------------------------------------------ Spec

Next ==
    \/ Start
    \/ Crash
    \/ AdvanceDay
    \/ CallRun
    \/ RunGetStatus
    \/ SetupConvert
    \/ SetupCreateDict
    \/ RunHasRun
    \/ RunCatchUp
    \/ RunSchedule
    \/ CallRunCommit
    \/ RcToday
    \/ RcHasRun
    \/ RcReadDate
    \/ RcCommit
    \/ RcLogRun
    \/ RcReturn

Spec == Init /\ [][Next]_vars

TypeOK ==
    /\ status \in BOOLEAN
    /\ plan \in Plans
    /\ runLog \subseteq Dates
    /\ today \in Dates
    /\ pc \in {"down", "terminated", "idle", "run_24", "setup_47", "setup_48",
               "run_26", "run_27", "run_29", "rc_35", "rc_36", "rc_39", "rc_40",
               "rc_41", "rc_ret"}
    /\ op \in {"none", "run", "_runCommit"}
    /\ gotStatus \in {Unset, "True", "False"}
    /\ commit_plan \in Plans
    /\ catchUps \in 0..1
    /\ today_l \in 0..MaxDay
    /\ seenRun \in {Unset, "True", "False"}
    /\ commit_num \in NoNum..MaxCount
    /\ result \in {"none"} \cup CommitOutcomes
    /\ marked \in BOOLEAN
    /\ jobs = 0
    /\ saves \in 0..1
    /\ \A d \in Dates : okCount[d] \in 0..(MaxLost + 1) /\ lost[d] \in 0..MaxLost
    /\ failed \subseteq Dates

\* ---------------------------------------------------------------- claims

InRunCommitPastGuard == pc \in {"rc_39", "rc_40", "rc_41"}

\* C1 (no double-run): a call of _runCommit that finds hasRun(today) true
\* neither reads the plan nor calls Commiter.commit nor logs, and is never
\* past line 37 for a date that is in the run log.
C1_NoDoubleRun ==
    /\ seenRun = "True" =>
         /\ ~InRunCommitPastGuard
         /\ commit_num = NoNum
         /\ result = "none"
         /\ ~marked
    /\ InRunCommitPastGuard => ~hasRun(today_l)

\* a _runCommit that found today already run has returned
C1_Witness == pc = "rc_ret" /\ seenRun = "True" /\ hasRun(today_l)

\* C2 (idempotent bootstrap): once a plan is written, no call of run (in this
\* or a later process) reaches setupPlan, so convert and createDict are not
\* called and the plan stays as written; createDict succeeds at most once.
C2_IdempotentBootstrap ==
    /\ [](pc \in {"setup_47", "setup_48"} => ~status)
    /\ [](saves <= 1)
    /\ [][status => (status' /\ plan' = plan /\ saves' = saves)]_vars

\* run was called on an initialized store and is past line 24
C2_Witness == pc = "run_26" /\ gotStatus = "True" /\ saves = 1

\* C3 (catch-up on late start), as claimed: a call of run that found the store
\* initialized and ended without a storage failure has either found today
\* already run (and reached line 29 directly) or executed _runCommit once.
C3_CatchUpClaim ==
    (op = "run" /\ pc = "terminated" /\ gotStatus = "True" /\ exc # "StorageFailure")
        => (catchUps = 1 \/ (catchUps = 0 /\ excAt = 29))

\* C4 (zero-count days), as claimed: a _runCommit that read a count of 0 for
\* a date not yet run never calls Commiter.commit.
C4_ZeroCountClaim ==
    (seenRun = "False" /\ commit_num = 0) => result = "none"

\* C5 (failure leaves the date eligible), as claimed: when commit reported
\* failure, logRun is not called and the date is not in the run log.
C5_FailureNotLoggedClaim ==
    result = "failed" => (~marked /\ ~hasRun(today_l))

\* C6 (at most once per date), as claimed: for no date does a commit of the
\* date's planned count (above 0) return success more than once.
C6_AtMostOnceClaim == \A d \in Dates : okCount[d] <= 1

\* C6, amended: for every date, a commit of its planned count (above 0)
\* returns success at most once more than the number of such successes that
\* were never logged (the process was killed, or logRun failed, between
\* line 40 and line 41).
C6_AtMostOnceUnlessLost == \A d \in Dates : okCount[d] <= 1 + lost[d]

\* a date whose commit succeeded twice, one success having gone unlogged
C6_Witness == \E d \in Dates : okCount[d] = 2 /\ lost[d] = 1 /\ hasRun(d)

\* C7 (markRun ordering), as claimed: a date with a planned count above 0 is
\* logged only after commit returned success in the same _runCommit.
C7_MarkOnlyAfterSuccessClaim ==
    (marked /\ commit_num > 0) => result = "ok"

\* C8 (bootstrap failure is fatal): when convert (line 47) or createDict
\* (line 48) raises, run ends with that exception, has entered no _runCommit,
\* has called no commit and has registered no job.
C8_BootstrapFailureFatal ==
    excAt \in {47, 48} =>
        /\ pc = "terminated"
        /\ exc \in {"ConvertFailure", "StorageFailure"}
        /\ catchUps = 0
        /\ result = "none"
        /\ ~marked
        /\ jobs = 0

\* run ended by a failing convert on an uninitialized store
C8_Witness ==
    pc = "terminated" /\ exc = "ConvertFailure" /\ excAt = 47 /\ gotStatus = "False"

\* C9 (action failures are contained), as claimed: after commit failed
\* (reported or raised) the process is not ended by anything but a storage
\* failure.
C9_ActionFailureContainedClaim ==
    result \in {"failed", "raise"} => ~(pc = "terminated" /\ exc # "StorageFailure")

\* C10 (storage failures terminate): a StorageFailure raised by any
\* DataAccess call in run or _runCommit ends the process; an ended process
\* calls nothing more (run log and commits unchanged) until a new process is
\* started.
C10_StorageFailureTerminates ==
    /\ [](exc = "StorageFailure" => pc = "terminated")
    /\ [][pc = "terminated" =>
            /\ pc' = "terminated" \/ (pc' = "idle" /\ exc' = "none")
            /\ UNCHANGED <<status, plan, runLog, okCount>>]_vars

\* _runCommit ended by logRun failing
C10_Witness == pc = "terminated" /\ exc = "StorageFailure" /\ excAt = 41

\* C11 (start always ends in STEADY), as claimed: a call of run ends by an
\* exception only when the storage, the bootstrap or the catch-up's commit
\* failed; on a store that is initialized or was bootstrapped it goes on to
\* register the daily job.
C11_StartReachesSteadyClaim ==
    (op = "run" /\ pc = "terminated")
        => exc \in {"StorageFailure", "ConvertFailure", "ActionFailure"}

\* C12 (retry uses the full count), as claimed: a date whose latest commit of
\* its planned count failed is committed again by the next _runCommit on that
\* date: no _runCommit finds such a date already run and returns at line 37.
C12_FailedDateRetriedClaim ==
    seenRun = "True" => today_l \notin failed

InRunCommit == pc \in {"rc_35", "rc_36", "rc_39", "rc_40", "rc_41", "rc_ret"}

C16_PlannedCountOnce ==
    /\ [](pc \in {"rc_40", "rc_41"} => commit_num = readDate(today_l))
    /\ []((pc = "rc_ret" /\ seenRun = "False" /\ commit_num > 0) =>
            /\ commit_num = readDate(today_l)
            /\ result \in {"ok", "failed"}
            /\ result = "ok" => hasRun(today_l))
    /\ [][(InRunCommit /\ InRunCommit' /\ result # "none")
            => (result' = result /\ okCount' = okCount /\ commit_num' = commit_num)]_vars

\* a _runCommit that committed a count of 2 or more with success has returned
C16_Witness ==
    /\ pc = "rc_ret"
    /\ seenRun = "False"
    /\ commit_num >= 2
    /\ result = "ok"
    /\ hasRun(today_l)

C18_PlanImmutable ==
    /\ [][saves >= 1 => (plan' = plan /\ status' = status)]_vars
    /\ [][InRunCommit =>
            /\ plan' = plan
            /\ status' = status
            /\ runLog \subseteq runLog'
            /\ runLog' \subseteq runLog \cup {today_l}]_vars

\* on a bootstrapped store with a plan that is not empty, after a failed
\* commit, a _runCommit has logged its date
C18_Witness ==
    /\ saves = 1
    /\ DOMAIN plan # {}
    /\ failed # {}
    /\ pc = "rc_ret"
    /\ marked

\* C19 (no back-fill of missed days): _runCommit reads the date once
\* (line 35) and keeps it; commit is counted and logRun writes only for that
\* date; so a past date that is not in the run log and is not the date of the
\* _runCommit in progress is never added, and the run log holds no date after
\* the current one.
C19_NoBackfill ==
    /\ [][(pc = "rc_35" /\ pc' = "rc_36") => today_l' = today]_vars
    /\ [][(InRunCommit /\ pc # "rc_35" /\ InRunCommit') => today_l' = today_l]_vars
    /\ [][runLog' # runLog => (pc = "rc_41" /\ runLog' = runLog \cup {today_l})]_vars
    /\ [][\A d \in Dates : okCount'[d] # okCount[d] => (pc = "rc_40" /\ d = today_l)]_vars
    /\ [][\A d \in Dates :
            (d < today /\ ~hasRun(d) /\ ~(InRunCommit /\ today_l = d)) => ~hasRun(d)']_vars
    /\ [](runLog \subseteq 1..today)

\* day 1 passed without a _runCommit; on day 2 a _runCommit has logged day 2
\* and day 1 stays out of the run log
C19_Witness ==
    /\ today = 2
    /\ runLog = {2}
    /\ pc = "rc_ret"
    /\ today_l = 2
    /\ marked

====
